---- MODULE Spec2Model ----
(***************************************************************************)
(* Model of sync_insee.py: yearly INSEE death-record files are downloaded, *)
(* parsed under one of two column dialects, and inserted into the          *)
(* insee_deces table in batches.                                           *)
(*                                                                         *)
(* The program is single-threaded.  Its position is pc; every blocking     *)
(* call to an external collaborator (requests.get, supabase insert) is     *)
(* split into a "send" and a "recv" step that are written to the wire      *)
(* trace `calls`, so that ordering and overlap of calls can be observed.   *)
(***************************************************************************)
EXTENDS Integers, Sequences, FiniteSets, TLC

VARIABLES
    pc,             \* position of the process
    config,         \* [url, key]: are SUPABASE_URL / SUPABASE_KEY set
    batch_size,     \* insert_to_supabase's batch_size parameter
    years,          \* the part of main's range(...) not yet iterated
    year,           \* main's loop variable
    total_records,  \* main's running total
    filepath,       \* main's filepath (download_insee_file's return value)
    tmp,            \* files in /tmp: set of [name, content]
    df,             \* main's df: NoFrame (None) or Frame(records)
    i,              \* insert_to_supabase's loop offset
    total_inserted, \* insert_to_supabase's running total
    store,          \* rows of the insee_deces table
    log,            \* what the process printed
    calls,          \* wire trace of the external calls (send / recv events)
    loads,          \* the calls of insert_to_supabase, in order: the period,
                    \* the frame and the batches committed for it so far
    exit_code       \* process exit status, Unset while running

vars == << pc, config, batch_size, years, year, total_records, filepath, tmp,
           df, i, total_inserted, store, log, calls, loads, exit_code >>

(***************************************************************************)
(* Bounds of the model and constants of the program.                       *)
(***************************************************************************)
\* main iterates range(1975, 2026); the model keeps the last NumOldYears
\* legacy years and every new-format year.
NumOldYears == 1
\* Largest number of data rows in a served file.
MaxRows == 3
\* insert_to_supabase(df, batch_size=1000): the model runs the same loop with
\* a batch size drawn from BatchSizes, the two sizes up to MaxBatchSize.
MaxBatchSize == 2

EndYear == 2026
DownloadBoundary == 2024
ParseBoundary_late == DownloadBoundary + 1

ParseBoundary == 2024
StartYear == DownloadBoundary - NumOldYears

None == "<None>"
\* None in a variable that otherwise holds an integer: an unbound year, the
\* exit status of a running process.
Unset == 0 - 1
\* pandas' missing value (NaN / None in an object column).
NaN == "<NaN>"

Min(a, b) == IF a < b THEN a ELSE b

BatchSizes == { b \in (MaxBatchSize - 1)..MaxBatchSize : b >= 1 }

YearsRange_descending == [k \in 1..(EndYear - StartYear) |-> EndYear - k]

\* range(1975, 2026), cut to the modelled years, in iteration order.
YearsRange == [k \in 1..(EndYear - StartYear) |-> StartYear + k - 1]

(***************************************************************************)
(* download_insee_file: file name and temporary path.                      *)
(***************************************************************************)
Filename(y) ==
    IF y >= DownloadBoundary
    THEN "deces-" \o ToString(y) \o ".csv"
    ELSE "Deces_" \o ToString(y) \o ".txt"

TempFile(filename) == "/tmp/" \o filename

(***************************************************************************)
(* Files the remote host may serve.  A file is either unreadable for       *)
(* pd.read_csv (readable = FALSE) or a header plus data rows.              *)
(***************************************************************************)
NewColumns == { "ADEC", "ANAIS", "COMDEC", "DEPDEC", "DEPDOM", "DEPNAIS", "JDEC",
                "JNAIS", "LIEUDEC_R", "MDEC", "MNAIS", "PNAIS", "REGDEC",
                "REGDOM", "SEXE" }

OldColumns == { "Nom", "Prénoms", "Sexe", "Date naissance", "Date décès",
                "Commune décès", "Département décès", "Département domicile",
                "Département naissance", "Pays naissance", "Lieu décès",
                "Région décès", "Région domicile" }

\* The k-th data row of the sample new-format file of year y.  The rows of
\* a file differ in COMDEC; the other cells run through present, missing and
\* unmapped values.
SampleNewRow(y, k) ==
    LET c == (y + 2 * k) % 4 IN
    [ col \in NewColumns |->
        CASE col = "SEXE"   -> (CASE c = 0 -> "1" [] c = 1 -> "2" [] c = 2 -> "3" [] OTHER -> NaN)
          [] col = "ANAIS"  -> "1950"
          [] col = "MNAIS"  -> (CASE c = 0 -> "4" [] c = 1 -> "12" [] c = 2 -> NaN [] OTHER -> "00")
          [] col = "JNAIS"  -> (CASE c = 0 -> "7" [] c = 1 -> "25" [] c = 2 -> "1" [] OTHER -> "00")
          [] col = "ADEC"   -> ToString(y)
          [] col = "MDEC"   -> (IF c = 3 THEN "xx" ELSE "1")
          [] col = "JDEC"   -> (IF c = 1 THEN NaN ELSE "15")
          [] col = "COMDEC" -> "75" \o ToString(100 + k)
          [] col = "PNAIS"  -> (IF c = 0 THEN NaN ELSE "99")
          [] col = "LIEUDEC_R" -> (IF c = 1 THEN NaN ELSE "HopCli")
          [] OTHER -> "75" ]

SampleOldRow(y, k) ==
    LET c == (y + 2 * k) % 4 IN
    [ col \in OldColumns |->
        CASE col = "Nom"     -> (IF c = 0 THEN NaN ELSE "DUPONT")
          [] col = "Prénoms" -> (IF c = 1 THEN NaN ELSE "JEAN")
          [] col = "Sexe"    -> (CASE c = 0 -> "1" [] c = 1 -> "2" [] c = 2 -> NaN [] OTHER -> "M")
          [] col = "Date naissance" -> (IF c = 3 THEN NaN ELSE "19500407")
          [] col = "Date décès"     -> ToString(y) \o "0115"
          [] col = "Commune décès"  -> "75" \o ToString(100 + k)
          [] col = "Pays naissance" -> (IF c = 1 THEN NaN ELSE "FRANCE")
          [] OTHER -> "75" ]

SampleRow(y, k) ==
    IF y >= DownloadBoundary THEN SampleNewRow(y, k) ELSE SampleOldRow(y, k)

SampleColumns(y) == IF y >= DownloadBoundary THEN NewColumns ELSE OldColumns

Table(cols, rows) == [readable |-> TRUE, columns |-> cols, rows |-> rows]

Garbage == [readable |-> FALSE, columns |-> {}, rows |-> << >>]

\* Restriction of the rows to a set of columns.
Project(rows, cols) ==
    [k \in 1..Len(rows) |-> [col \in cols |-> rows[k][col]]]

\* A table of two rows whose second line holds one field more than the
\* header.
Ragged(y) ==
    LET cols == SampleColumns(y)
        long == [col \in cols \cup {"<extra>"} |->
                    IF col = "<extra>" THEN "x" ELSE SampleRow(y, 2)[col]]
    IN  Table(cols, <<SampleRow(y, 1), long>>)

\* What the host may answer for year y with a 2xx status: an unreadable
\* body, a table with one over-long line, a header without rows, a one-row
\* table that lacks the optional columns (LIEUDEC_R; the name columns), or
\* a full table of 2..MaxRows rows.
ServedFiles(y) ==
    LET full(n) == [k \in 1..n |-> SampleRow(y, k)]
        fewer   == SampleColumns(y) \ {"LIEUDEC_R", "Nom", "Prénoms"}
    IN  {Garbage, Ragged(y)}
        \cup { Table(SampleColumns(y), full(n)) : n \in {0} \cup 2..MaxRows }
        \cup { Table(fewer, Project(full(1), fewer)) }

FetchErrors == {"NotFound", "Transient"}

(***************************************************************************)
(* parse_insee_file.                                                       *)
(***************************************************************************)
\* The columns of df_mapped, in both branches.
Fields == { "nom", "prenoms", "sexe", "date_naissance", "date_deces",
            "commune_deces", "departement_deces", "departement_domicile",
            "departement_naissance", "pays_naissance", "lieu_deces",
            "region_deces", "region_domicile", "annee" }

\* df['X'] on the new-format frame raises KeyError when X is no column.
RequiredNewColumns == NewColumns \ {"LIEUDEC_R"}

notna(v) == v # NaN

\* str.zfill(2)
zfill2(s) ==
    CASE Len(s) >= 2 -> s
      [] s = "+"     -> "+0"
      [] s = "-"     -> "-0"
      [] Len(s) = 1  -> "0" \o s
      [] OTHER       -> "00"

\* The lambda of lines 64-66 / 67-69.
ComposeDate(a, m, j) ==
    IF notna(a) /\ notna(m) /\ notna(j)
    THEN a \o "-" \o zfill2(m) \o "-" \o zfill2(j)
    ELSE NaN

\* df['SEXE'].map({'1': 'M', '2': 'F'})
MapSexe(v) == CASE v = "1" -> "M" [] v = "2" -> "F" [] OTHER -> NaN

\* One row of df_mapped, new format (lines 62-81).
NewMapped(row, cols, y) ==
    [ sexe                  |-> MapSexe(row["SEXE"]),
      date_naissance        |-> ComposeDate(row["ANAIS"], row["MNAIS"], row["JNAIS"]),
      date_deces            |-> ComposeDate(row["ADEC"], row["MDEC"], row["JDEC"]),
      commune_deces         |-> row["COMDEC"],
      departement_deces     |-> row["DEPDEC"],
      departement_domicile  |-> row["DEPDOM"],
      departement_naissance |-> row["DEPNAIS"],
      pays_naissance        |-> row["PNAIS"],
      lieu_deces            |-> IF "LIEUDEC_R" \in cols THEN row["LIEUDEC_R"] ELSE NaN,
      region_deces          |-> row["REGDEC"],
      region_domicile       |-> row["REGDOM"],
      annee                 |-> y,
      nom                   |-> NaN,
      prenoms               |-> NaN ]

\* df.get(name): the column, or None when the frame has no such column.
Get(row, cols, name) == IF name \in cols THEN row[name] ELSE NaN

\* One row of df_mapped, old format (lines 90-105).
OldMapped(row, cols, y) ==
    [ nom                   |-> Get(row, cols, "Nom"),
      prenoms               |-> Get(row, cols, "Prénoms"),
      sexe                  |-> Get(row, cols, "Sexe"),
      date_naissance        |-> Get(row, cols, "Date naissance"),
      date_deces            |-> Get(row, cols, "Date décès"),
      commune_deces         |-> Get(row, cols, "Commune décès"),
      departement_deces     |-> Get(row, cols, "Département décès"),
      departement_domicile  |-> Get(row, cols, "Département domicile"),
      departement_naissance |-> Get(row, cols, "Département naissance"),
      pays_naissance        |-> Get(row, cols, "Pays naissance"),
      lieu_deces            |-> Get(row, cols, "Lieu décès"),
      region_deces          |-> Get(row, cols, "Région décès"),
      region_domicile       |-> Get(row, cols, "Région domicile"),
      annee                 |-> y ]

\* df_mapped.fillna('') on one row.  annee is an integer column without
\* missing values.
fillna(rec) ==
    [ f \in DOMAIN rec |->
        IF f = "annee" THEN rec[f]
        ELSE IF rec[f] = NaN THEN "" ELSE rec[f] ]

\* A return value of parse_insee_file: None, or df_mapped as the sequence
\* of its records (df_mapped.to_dict('records')).
NoFrame == [isNone |-> TRUE, records |-> << >>]

Frame(records) == [isNone |-> FALSE, records |-> records]

\* pd.read_csv: the C parser raises on an undecodable or empty body and on
\* a line with more fields than the header.
Tokenizes(content) ==
    /\ content.readable
    /\ \A k \in DOMAIN content.rows : DOMAIN content.rows[k] \subseteq content.columns

\* The possible return values of parse_insee_file for a file with the given
\* content, under the new-format branch (new = TRUE) or the old one.
\*  - a file read_csv cannot tokenize makes it raise;
\*  - new format: a missing required column raises KeyError; on a frame
\*    without rows df.apply(..., axis=1) does not yield a column, and the
\*    frame is then either rejected or empty, depending on the library;
\*  - old format: when no expected column exists every value of the dict is
\*    a scalar and the DataFrame constructor raises.
ParseAs(content, y, new) ==
    IF ~Tokenizes(content) THEN {NoFrame}
    ELSE IF new
    THEN IF ~(RequiredNewColumns \subseteq content.columns) THEN {NoFrame}
         ELSE IF Len(content.rows) = 0 THEN {NoFrame, Frame(<< >>)}
         ELSE { Frame([k \in 1..Len(content.rows) |->
                    fillna(NewMapped(content.rows[k], content.columns, y))]) }
    ELSE IF content.columns \cap OldColumns = {} THEN {NoFrame}
         ELSE { Frame([k \in 1..Len(content.rows) |->
                    fillna(OldMapped(content.rows[k], content.columns, y))]) }

\* if year >= 2024: ... else: ...
ParseOutcomes(content, y) == ParseAs(content, y, y >= ParseBoundary)

(***************************************************************************)
(* insert_to_supabase helpers.                                             *)
(***************************************************************************)
Batch_overlap(d, off, b) == SubSeq(d, off + 1, Min(off + b + 1, Len(d)))

\* df.iloc[i:i+batch_size].to_dict('records'); i is a 0-based offset.
Batch(d, off, b) == SubSeq(d, off + 1, Min(off + b, Len(d)))

\* i // batch_size + 1, the batch number that is printed.
BatchNumber(off, b) == (off \div b) + 1

\* The next value of range(0, len(df), batch_size) after off.
NextOffset(off, b) == off + b

AddInserted_full(total, records) == total + batch_size

\* total_inserted += len(records)
AddInserted(total, records) == total + Len(records)

(***************************************************************************)
(* Events of the wire trace: a request leaving the process and the answer  *)
(* (or the exception) coming back.  op is "fetch" (requests.get, line 32)  *)
(* or "insert" (supabase insert().execute(), line 132).                    *)
(***************************************************************************)
Send(op, y, index) ==
    [ev |-> "send", op |-> op, year |-> y, index |-> index, status |-> "pending"]

Recv(op, y, index, status) ==
    [ev |-> "recv", op |-> op, year |-> y, index |-> index, status |-> status]

\* insert_to_supabase(df) is entered for period y (line 171).
NewLoad(y, records) == [year |-> y, records |-> records, batches |-> << >>]

\* The commit of a batch is attempted (line 132) within the current load.
BatchSent(ls, index, records) ==
    [ls EXCEPT ![Len(ls)].batches =
        Append(@, [index |-> index, records |-> records, status |-> "pending"])]

\* The commit returned (status "ok") or raised (the error).
BatchAnswered(ls, status) ==
    [ls EXCEPT ![Len(ls)].batches = [@ EXCEPT ![Len(@)].status = status]]

(***************************************************************************)
(* Initial state: the module has not been imported yet.                    *)
(***************************************************************************)
Init ==
    /\ pc = "import"
    /\ config \in [url : BOOLEAN, key : BOOLEAN]
    /\ batch_size \in BatchSizes
    /\ years = << >>
    /\ year = Unset
    /\ total_records = 0
    /\ filepath = None
    /\ tmp = {}
    /\ df = NoFrame
    /\ i = 0
    /\ total_inserted = 0
    /\ store = << >>
    /\ log = << >>
    /\ calls = << >>
    /\ loads = << >>
    /\ exit_code = Unset

create_client_lazy(cfg) == TRUE

\* Line 12: create_client(SUPABASE_URL, SUPABASE_KEY) returns a client
\* (TRUE) or raises because the URL or the key is missing (FALSE).
create_client(cfg) == cfg.url /\ cfg.key

\* Lines 8-12 and 186-187: create_client raises when the URL or the key is
\* missing, and the uncaught exception ends the process with status 1;
\* otherwise main() starts (lines 145-151).
Startup ==
    /\ pc = "import"
    /\ IF create_client(config)
       THEN /\ pc' = "loop"
            /\ years' = YearsRange
            /\ total_records' = 0
            /\ log' = Append(log, [msg |-> "Starting INSEE death records sync"])
            /\ UNCHANGED exit_code
       ELSE /\ pc' = "crashed"
            /\ exit_code' = 1
            /\ UNCHANGED << years, total_records, log >>
    /\ UNCHANGED << config, batch_size, year, filepath, tmp, df, i,
                    total_inserted, store, calls, loads >>

Continue_break == pc' = "loop" /\ years' = << >>

Continue_retry == pc' = "loop" /\ years' = <<year>> \o years

Continue_fallthrough == pc' = "insert" /\ UNCHANGED years

\* The `continue` of lines 162 and 168: back to the for statement, which
\* keeps its iterator.
Continue == pc' = "loop" /\ UNCHANGED years

\* Line 153: the for loop takes the next year (lines 154-156).
ForYear ==
    /\ pc = "loop"
    /\ years # << >>
    /\ year' = Head(years)
    /\ years' = Tail(years)
    /\ log' = Append(log, [msg |-> "Processing year", year |-> Head(years)])
    /\ pc' = "download"
    /\ UNCHANGED << config, batch_size, total_records, filepath, tmp, df, i,
                    total_inserted, store, calls, exit_code, loads >>

\* Lines 159, 14-32: download_insee_file builds the URL and requests.get is
\* sent.
DownloadSend ==
    /\ pc = "download"
    /\ log' = Append(log, [msg |-> "Downloading", filename |-> Filename(year)])
    /\ calls' = Append(calls, Send("fetch", year, 0))
    /\ pc' = "fetching"
    /\ UNCHANGED << config, batch_size, years, year, total_records, filepath,
                    tmp, df, i, total_inserted, store, exit_code, loads >>

\* Lines 32-41, 159-160: a 2xx answer; the body is written to the temporary
\* file, whose path is returned to main.
DownloadOk ==
    /\ pc = "fetching"
    /\ \E content \in ServedFiles(year) :
        LET temp_file == TempFile(Filename(year)) IN
        /\ tmp' = {f \in tmp : f.name # temp_file}
                    \cup {[name |-> temp_file, content |-> content]}
        /\ filepath' = temp_file
    /\ calls' = Append(calls, Recv("fetch", year, 0, "ok"))
    /\ log' = Append(log, [msg |-> "Downloaded successfully", filename |-> Filename(year)])
    /\ pc' = "parse"
    /\ UNCHANGED << config, batch_size, years, year, total_records, df, i,
                    total_inserted, store, exit_code, loads >>

\* The body of the failed answer is written and handed to the parser.
ReturnNone_unchecked ==
    LET temp_file == TempFile(Filename(year)) IN
    /\ tmp' = {f \in tmp : f.name # temp_file}
                \cup {[name |-> temp_file, content |-> Garbage]}
    /\ filepath' = temp_file
    /\ pc' = "parse"
    /\ UNCHANGED years

\* Lines 42-44 and 160-162: the exception skips lines 35-40, nothing is
\* written, download_insee_file returns None and main skips the year.
ReturnNone ==
    /\ filepath' = None
    /\ UNCHANGED tmp
    /\ Continue

\* Lines 32-33, 42-44, 159-162: the request times out, the connection
\* fails or raise_for_status() rejects the status.
DownloadFail ==
    /\ pc = "fetching"
    /\ \E e \in FetchErrors :
        /\ log' = log \o << [msg |-> "Error downloading", filename |-> Filename(year), error |-> e],
                            [msg |-> "Skipping year - download failed", year |-> year] >>
        /\ calls' = Append(calls, Recv("fetch", year, 0, e))
    /\ ReturnNone
    /\ UNCHANGED << config, batch_size, year, total_records, df, i,
                    total_inserted, store, exit_code, loads >>

\* The content of the file at path, as open() finds it.
ReadFile(path) == (CHOOSE f \in tmp : f.name = path).content

\* Lines 165-168 with parse_insee_file (46-119), and lines 123-125 when the
\* frame has records.
Parse ==
    /\ pc = "parse"
    /\ \E result \in ParseOutcomes(ReadFile(filepath), year) :
        /\ df' = result
        /\ IF result.isNone \/ Len(result.records) = 0
           THEN /\ log' = log \o << [msg |-> "Parsing", filepath |-> filepath] >> \o
                     (IF result.isNone
                      THEN << [msg |-> "Error parsing", filepath |-> filepath] >>
                      ELSE << [msg |-> "Parsed records", n |-> 0] >>)
                     \o << [msg |-> "Skipping year - parsing failed or no records",
                            year |-> year] >>
                /\ Continue
                /\ UNCHANGED << i, total_inserted, loads >>
           ELSE /\ log' = log \o << [msg |-> "Parsing", filepath |-> filepath],
                                    [msg |-> "Parsed records", n |-> Len(result.records)],
                                    [msg |-> "Inserting records", n |-> Len(result.records)] >>
                /\ total_inserted' = 0
                /\ i' = 0
                /\ loads' = Append(loads, NewLoad(year, result.records))
                /\ pc' = "insert"
                /\ UNCHANGED years
    /\ UNCHANGED << config, batch_size, year, total_records, filepath,
                    tmp, store, calls, exit_code >>

\* Lines 127-132: the next batch is cut from the frame and its insert is
\* sent to the store.
InsertSend ==
    /\ pc = "insert"
    /\ i < Len(df.records)
    /\ calls' = Append(calls, Send("insert", year, BatchNumber(i, batch_size)))
    /\ loads' = BatchSent(loads, BatchNumber(i, batch_size),
                          Batch(df.records, i, batch_size))
    /\ pc' = "committing"
    /\ UNCHANGED << config, batch_size, years, year, total_records, filepath,
                    tmp, df, i, total_inserted, store, log, exit_code >>

\* Lines 140-141 and 171-178, taken when range(0, len(df), batch_size) is
\* exhausted: the function returns inserted, main adds it to its total and
\* removes the temporary file.
AfterLastBatch(inserted) ==
    /\ total_records' = total_records + inserted
    /\ tmp' = {f \in tmp : f.name # filepath}
    /\ pc' = "loop"

\* Where the batch loop goes after the batch at offset i.
AfterBatch(inserted) ==
    IF NextOffset(i, batch_size) < Len(df.records)
    THEN /\ i' = NextOffset(i, batch_size)
         /\ pc' = "insert"
         /\ UNCHANGED << total_records, tmp >>
    ELSE /\ i' = i
         /\ AfterLastBatch(inserted)

AfterFailedBatch_break(inserted) == i' = i /\ AfterLastBatch(inserted)

\* The `continue` of line 138: a failed batch goes on like any other.
AfterFailedBatch(inserted) == AfterBatch(inserted)

\* Lines 132-134: the store accepts the batch.
InsertOk ==
    /\ pc = "committing"
    /\ LET records == Batch(df.records, i, batch_size) IN
        /\ store' = store \o records
        /\ total_inserted' = AddInserted(total_inserted, records)
        /\ log' = log \o
              << [msg |-> "Inserted batch", index |-> BatchNumber(i, batch_size),
                  n |-> Len(records), total |-> AddInserted(total_inserted, records)] >>
              \o (IF NextOffset(i, batch_size) < Len(df.records) THEN << >>
                  ELSE << [msg |-> "Total inserted", n |-> AddInserted(total_inserted, records)] >>)
        /\ calls' = Append(calls, Recv("insert", year, BatchNumber(i, batch_size), "ok"))
        /\ loads' = BatchAnswered(loads, "ok")
        /\ AfterBatch(AddInserted(total_inserted, records))
    /\ UNCHANGED << config, batch_size, years, year, filepath, df, exit_code >>

StoreErrors == {"rejected"}

\* Lines 135-138: the insert raises; the error and a sample record are
\* printed and the loop continues.
InsertFail ==
    /\ pc = "committing"
    /\ LET records == Batch(df.records, i, batch_size) IN
        /\ \E e \in StoreErrors :
            /\ calls' = Append(calls, Recv("insert", year, BatchNumber(i, batch_size), e))
            /\ loads' = BatchAnswered(loads, e)
            /\ log' = log \o
              << [msg |-> "Error inserting batch", index |-> BatchNumber(i, batch_size),
                  error |-> e],
                 [msg |-> "Sample record from failed batch", record |-> records[1]] >>
              \o (IF NextOffset(i, batch_size) < Len(df.records) THEN << >>
                  ELSE << [msg |-> "Total inserted", n |-> total_inserted] >>)
        /\ AfterFailedBatch(total_inserted)
    /\ UNCHANGED << config, batch_size, years, year, filepath, df,
                    total_inserted, store, exit_code >>

\* Lines 180-187: the range is exhausted; the summary is printed, main
\* returns and the process ends with status 0.
Finish ==
    /\ pc = "loop"
    /\ years = << >>
    /\ log' = log \o << [msg |-> "Sync completed!"],
                        [msg |-> "Total records inserted", n |-> total_records] >>
    /\ exit_code' = 0
    /\ pc' = "done"
    /\ UNCHANGED << config, batch_size, years, year, total_records, filepath,
                    tmp, df, i, total_inserted, store, calls, loads >>

\* What main has accumulated about the run when the loop ends: its only
\* accumulator is total_records (lines 151, 172), which the summary prints
\* (line 182); main returns nothing.
SyncResult == [total_committed |-> total_records]

Next ==
    \/ Startup
    \/ ForYear
    \/ DownloadSend
    \/ DownloadOk
    \/ DownloadFail
    \/ Parse
    \/ InsertSend
    \/ InsertOk
    \/ InsertFail
    \/ Finish

Spec == Init /\ [][Next]_vars

\* The scheduler runs the one process until it ends, and both collaborators
\* answer every request (requests.get has a timeout).
FairSpec == Spec /\ WF_vars(Next)

(***************************************************************************)
(* Observations on the histories, used by the properties below.            *)
(***************************************************************************)
Range(seq) == { seq[k] : k \in DOMAIN seq }

\* The periods of the run, independently of the iteration order.
AllYears == StartYear..(EndYear - 1)

CeilDiv(n, b) == (n + b - 1) \div b

\* insert_to_supabase has returned for the k-th frame handed to it.
LoadDone(k) == k < Len(loads) \/ pc \notin {"insert", "committing"}

Failed(batch) == batch.status \notin {"pending", "ok"}

FetchFailed(y) ==
    \E j \in DOMAIN calls :
        calls[j].ev = "recv" /\ calls[j].op = "fetch" /\ calls[j].year = y
            /\ calls[j].status # "ok"

\* parse_insee_file returned None for year y.
ParseFailed(y) ==
    \E j \in DOMAIN log :
        log[j] = [msg |-> "Error parsing", filepath |-> TempFile(Filename(y))]

\* main skipped year y after the parse (None or an empty frame).
ParseSkipped(y) ==
    \E j \in DOMAIN log :
        log[j] = [msg |-> "Skipping year - parsing failed or no records", year |-> y]

AnyBatchFailed ==
    \E k \in DOMAIN loads : \E x \in DOMAIN loads[k].batches :
        Failed(loads[k].batches[x])

AnyPeriodFailed == \E y \in AllYears : FetchFailed(y) \/ ParseFailed(y)

ConfigOk == config.url /\ config.key

(***************************************************************************)
(* C1.  For every frame of n records handed to insert_to_supabase and      *)
(* every batch size b, once the function has returned exactly ceil(n/b)    *)
(* batch commits were attempted, numbered 1..ceil(n/b), each answered,     *)
(* whatever commits failed: a failed batch does not stop the later ones.   *)
(***************************************************************************)
C1_AllBatchesAttempted ==
    \A k \in DOMAIN loads :
        LoadDone(k) =>
            LET bs == loads[k].batches IN
            /\ Len(bs) = CeilDiv(Len(loads[k].records), batch_size)
            /\ \A x \in DOMAIN bs : bs[x].index = x /\ bs[x].status # "pending"

\* A finished period whose first batch failed and whose second batch was
\* attempted all the same.
C1_Witness ==
    \E k \in DOMAIN loads :
        /\ LoadDone(k)
        /\ Len(loads[k].batches) >= 2
        /\ Failed(loads[k].batches[1])

(***************************************************************************)
(* C2.  Periods are independent: with the configuration present the run    *)
(* never aborts, and whatever failed so far (fetch, parse, batch commit)   *)
(* every period of the range is either already attempted or still ahead    *)
(* in the loop; at the end every period has been attempted.                *)
(***************************************************************************)
FetchedYears == { calls[j].year : j \in { n \in DOMAIN calls : calls[n].op = "fetch" } }

C2_PeriodsIndependent ==
    (ConfigOk /\ pc # "import") =>
        /\ pc # "crashed"
        /\ FetchedYears \cup Range(years)
              \cup (IF pc = "download" THEN {year} ELSE {}) = AllYears
        /\ (pc = "done" => FetchedYears = AllYears)

\* A finished run in which the first period failed at the fetch, the second
\* lost a batch and a later one was skipped after the parse.
C2_Witness ==
    /\ pc = "done"
    /\ FetchFailed(StartYear)
    /\ \E k \in DOMAIN loads :
          /\ loads[k].year = StartYear + 1
          /\ \E x \in DOMAIN loads[k].batches : Failed(loads[k].batches[x])
    /\ ParseFailed(StartYear + 2)
    /\ FetchedYears = AllYears

(***************************************************************************)
(* C3.  The run ends in failure (non-zero exit status) whenever a batch    *)
(* commit failed or a period failed, and in success only otherwise.        *)
(***************************************************************************)
C3_FailureSignalled ==
    (pc = "done" /\ (AnyBatchFailed \/ AnyPeriodFailed)) => exit_code # 0

(***************************************************************************)
(* C4.  The batches committed for a frame are contiguous slices in the     *)
(* original order: none is empty, none exceeds the batch size, all but     *)
(* the last have exactly the batch size, and their concatenation in commit *)
(* order is a prefix of the frame at any time and the whole frame once     *)
(* insert_to_supabase has returned.                                        *)
(***************************************************************************)
RECURSIVE ConcatBatches(_, _)
\* The records of the first n batches, in commit order.
ConcatBatches(bs, n) ==
    IF n = 0 THEN << >> ELSE ConcatBatches(bs, n - 1) \o bs[n].records

IsPrefix(a, b) == Len(a) <= Len(b) /\ a = SubSeq(b, 1, Len(a))

C4_BatchPartition ==
    \A k \in DOMAIN loads :
        LET bs  == loads[k].batches
            all == ConcatBatches(bs, Len(bs))
            m   == CeilDiv(Len(loads[k].records), batch_size)
        IN  /\ IsPrefix(all, loads[k].records)
            /\ LoadDone(k) => all = loads[k].records
            /\ \A x \in DOMAIN bs :
                  /\ Len(bs[x].records) >= 1
                  /\ Len(bs[x].records) <= batch_size
                  /\ x < m => Len(bs[x].records) = batch_size

\* A finished frame cut into a full batch and a shorter last batch.
C4_Witness ==
    \E k \in DOMAIN loads :
        /\ LoadDone(k)
        /\ Len(loads[k].batches) = 2
        /\ Len(loads[k].batches[1].records) = batch_size
        /\ Len(loads[k].batches[2].records) < batch_size

(***************************************************************************)
(* C5.  Between periods and at the end of the run the running total is     *)
(* the sum of the sizes of exactly the batches whose commit succeeded; a   *)
(* failed batch and a failed or skipped period add nothing.  It is also    *)
(* the number of rows in the table.                                        *)
(***************************************************************************)
RECURSIVE SumOk(_, _)
\* Sum of the sizes of the successfully committed batches among the first
\* n batches of bs.
SumOk(bs, n) ==
    IF n = 0 THEN 0
    ELSE SumOk(bs, n - 1) + (IF bs[n].status = "ok" THEN Len(bs[n].records) ELSE 0)

RECURSIVE SumCommitted(_)
\* The same sum over the first n loads.
SumCommitted(n) ==
    IF n = 0 THEN 0
    ELSE SumCommitted(n - 1) + SumOk(loads[n].batches, Len(loads[n].batches))

C5_CommittedCount ==
    pc \in {"loop", "done"} =>
        /\ total_records = SumCommitted(Len(loads))
        /\ total_records = Len(store)

\* A finished run with a period committed cleanly and a period that lost
\* one of its two batches.
C5_Witness ==
    /\ pc = "done"
    /\ total_records > 0
    /\ \E k \in DOMAIN loads :
          /\ Len(loads[k].batches) = 2
          /\ Failed(loads[k].batches[1]) # Failed(loads[k].batches[2])
    /\ \E k \in DOMAIN loads :
          \A x \in DOMAIN loads[k].batches : loads[k].batches[x].status = "ok"

(***************************************************************************)
(* C6.  At the end of the run the result holds the ordered sequence of     *)
(* failed periods: exactly the periods whose fetch failed or whose file    *)
(* could not be parsed, in processing order.                               *)
(***************************************************************************)
\* The periods that failed, in processing order.
FailedPeriods ==
    SelectSeq([k \in 1..(EndYear - StartYear) |-> StartYear + k - 1],
              LAMBDA y : FetchFailed(y) \/ ParseFailed(y))

\* The failed periods the result reports.
ReportedFailedPeriods ==
    IF "failed_periods" \in DOMAIN SyncResult
    THEN SyncResult["failed_periods"] ELSE << >>

C6_FailedPeriodsRecorded ==
    pc = "done" => ReportedFailedPeriods = FailedPeriods

(***************************************************************************)
(* C7.  At the end of the run the result holds every failed batch commit   *)
(* (period, batch index, record count, error), each attributed to the      *)
(* period that was being loaded.                                           *)
(***************************************************************************)
RECURSIVE FailedIn(_, _, _)
\* The failed batches among the first n batches bs of period y.
FailedIn(y, bs, n) ==
    IF n = 0 THEN << >>
    ELSE FailedIn(y, bs, n - 1)
            \o (IF Failed(bs[n])
                THEN << [period |-> y, index |-> bs[n].index,
                         count |-> Len(bs[n].records), error |-> bs[n].status] >>
                ELSE << >>)

RECURSIVE FailedBatches(_)
\* The failed batches of the first n loads, in commit order.
FailedBatches(n) ==
    IF n = 0 THEN << >>
    ELSE FailedBatches(n - 1)
            \o FailedIn(loads[n].year, loads[n].batches, Len(loads[n].batches))

\* The failed batches the result reports.
ReportedFailedBatches ==
    IF "failed_batches" \in DOMAIN SyncResult
    THEN SyncResult["failed_batches"] ELSE << >>

C7_FailedBatchesRecorded ==
    pc = "done" => ReportedFailedBatches = FailedBatches(Len(loads))

(***************************************************************************)
(* C8.  A temporary file exists only while its period is being processed:  *)
(* the only file in /tmp is the one of the current period, between its     *)
(* download and the end of its load.                                       *)
(***************************************************************************)
C8_TempFilesRemoved ==
    \A f \in tmp :
        /\ pc \in {"parse", "insert", "committing"}
        /\ f.name = filepath

(***************************************************************************)
(* C9.  Execution is strictly sequential: every request is answered        *)
(* before the next one is sent (at most one fetch or commit in flight),    *)
(* periods are fetched in ascending order, the batches of a period are     *)
(* committed in the order 1, 2, ... right after its fetch, and the next    *)
(* period's fetch is sent only after the last commit of the period before  *)
(* has been answered.                                                      *)
(***************************************************************************)
SameCall(a, b) == a.op = b.op /\ a.year = b.year /\ a.index = b.index

C9_Sequential ==
    /\ \A j \in DOMAIN calls :
          IF j % 2 = 1
          THEN /\ calls[j].ev = "send"
               /\ j = 1 => calls[j].op = "fetch"
               /\ j > 2 =>
                    IF calls[j].op = "fetch"
                    THEN calls[j].year > calls[j - 2].year
                    ELSE /\ calls[j].year = calls[j - 2].year
                         /\ calls[j].index = calls[j - 2].index + 1
          ELSE /\ calls[j].ev = "recv"
               /\ SameCall(calls[j], calls[j - 1])
    /\ Len(calls) % 2 = 1 <=> pc \in {"fetching", "committing"}

\* A finished run that fetched every period and committed two batches for
\* one of them.
C9_Witness ==
    /\ pc = "done"
    /\ FetchedYears = AllYears
    /\ \E k \in DOMAIN loads : k < Len(loads) /\ Len(loads[k].batches) >= 2

(***************************************************************************)
(* C10.  Every record handed to the loader has the same field set under    *)
(* both dialects, and a field the dialect does not supply (nom and prenoms *)
(* in the new format, a missing column, a missing value) is null: no       *)
(* field is the empty string.                                              *)
(***************************************************************************)
C10_AbsentFieldsNull ==
    \A k \in DOMAIN loads :
        \A r \in DOMAIN loads[k].records :
            LET rec == loads[k].records[r] IN
            /\ DOMAIN rec = Fields
            /\ \A f \in Fields \ {"annee"} : rec[f] # ""
            /\ loads[k].year >= ParseBoundary =>
                  rec.nom = NaN /\ rec.prenoms = NaN

(***************************************************************************)
(* C11.  New dialect: a composite date (date_naissance, date_deces) is     *)
(* the string YYYY-MM-DD, month and day padded to two digits, when year,   *)
(* month and day are all present and month and day are valid numbers; in   *)
(* every other case (a part missing, a non-numeric month or day, "00") it  *)
(* is null, never a partially formed string.                               *)
(***************************************************************************)
Pad2(s) == IF Len(s) = 1 THEN "0" \o s ELSE s

ValidMonths == { ToString(n) : n \in 1..12 } \cup { "0" \o ToString(n) : n \in 1..9 }

ValidDays == { ToString(n) : n \in 1..31 } \cup { "0" \o ToString(n) : n \in 1..9 }

\* The date the claim states for the raw parts a, m, j.
ClaimedDate(a, m, j) ==
    IF a # NaN /\ m \in ValidMonths /\ j \in ValidDays
    THEN a \o "-" \o Pad2(m) \o "-" \o Pad2(j)
    ELSE NaN

\* The frame being inserted was parsed from the file at filepath, which is
\* still in /tmp.
Loading == pc \in {"insert", "committing"}

C11_DateComposition ==
    (Loading /\ year >= ParseBoundary) =>
        LET rows == ReadFile(filepath).rows IN
        \A k \in DOMAIN rows :
            /\ df.records[k].date_naissance
                  = ClaimedDate(rows[k]["ANAIS"], rows[k]["MNAIS"], rows[k]["JNAIS"])
            /\ df.records[k].date_deces
                  = ClaimedDate(rows[k]["ADEC"], rows[k]["MDEC"], rows[k]["JDEC"])

(***************************************************************************)
(* C12.  One malformed row does not abort the parsing of the other rows:   *)
(* a file that has a header with the expected columns and at least one     *)
(* data row yields a frame with exactly one record per data row.           *)
(***************************************************************************)
\* parse_insee_file has returned for the file at filepath and the file is
\* still in /tmp: the frame is being inserted, or the period was skipped.
Parsed ==
    \/ Loading
    \/ pc = "loop" /\ \E f \in tmp : f.name = filepath

HasExpectedColumns(content, y) ==
    IF y >= ParseBoundary
    THEN RequiredNewColumns \subseteq content.columns
    ELSE content.columns \cap OldColumns # {}

C12_RowContainment ==
    Parsed =>
        LET content == ReadFile(filepath) IN
        (content.readable /\ HasExpectedColumns(content, year)
            /\ Len(content.rows) >= 1) =>
                /\ ~df.isNone
                /\ Len(df.records) = Len(content.rows)

(***************************************************************************)
(* C13.  A missing store URL or store key is fatal to the run before any   *)
(* period is attempted: nothing is fetched, parsed or committed and the    *)
(* process ends with a failure status.  It is the only failure that ends   *)
(* the run: with both values present the run never ends that way.          *)
(***************************************************************************)
C13_MissingConfigFatal ==
    /\ ~ConfigOk =>
          /\ pc \in {"import", "crashed"}
          /\ calls = << >> /\ loads = << >> /\ log = << >>
          /\ tmp = {} /\ store = << >>
          /\ pc = "crashed" => exit_code = 1
    /\ ConfigOk =>
          /\ pc # "crashed"
          /\ pc = "done" => exit_code = 0

C13_Witness == pc = "crashed" /\ config.url /\ ~config.key /\ exit_code = 1

(***************************************************************************)
(* C14.  Committing a batch whose rows the store already holds never       *)
(* silently inserts them a second time: the store holds no row twice.      *)
(* The run starts on a store that holds the rows an earlier run committed  *)
(* for the first period.                                                   *)
(***************************************************************************)
\* The rows an earlier run committed for the two-row file of the first year.
PreviousRows ==
    LET y    == StartYear
        rows == [k \in 1..2 |-> SampleRow(y, k)]
    IN  (CHOOSE r \in ParseOutcomes(Table(SampleColumns(y), rows), y) : TRUE).records

RerunInit ==
    /\ pc = "import"
    /\ config = [url |-> TRUE, key |-> TRUE]
    /\ batch_size \in BatchSizes
    /\ years = << >>
    /\ year = Unset
    /\ total_records = 0
    /\ filepath = None
    /\ tmp = {}
    /\ df = NoFrame
    /\ i = 0
    /\ total_inserted = 0
    /\ store = PreviousRows
    /\ log = << >>
    /\ calls = << >>
    /\ loads = << >>
    /\ exit_code = Unset

RerunSpec == RerunInit /\ [][Next]_vars

C14_NoSilentDoubleInsert ==
    \A a, b \in DOMAIN store : a # b => store[a] # store[b]

(***************************************************************************)
(* C15.  The temporary file of a period is written and its parse started   *)
(* only after the fetch of that period was answered with a success status: *)
(* a period whose fetch failed (status, timeout, network) has no temporary *)
(* file, no parse, no frame handed to the loader and no commit.            *)
(***************************************************************************)
\* The years whose fetch was answered with a success status, and with a
\* failure.
FetchOkYears ==
    { calls[j].year : j \in { n \in DOMAIN calls :
          calls[n].ev = "recv" /\ calls[n].op = "fetch" /\ calls[n].status = "ok" } }

FetchFailedYears ==
    { calls[j].year : j \in { n \in DOMAIN calls :
          calls[n].ev = "recv" /\ calls[n].op = "fetch" /\ calls[n].status # "ok" } }

\* The years for which a batch commit was sent to the store.
CommitYears ==
    { calls[j].year : j \in { n \in DOMAIN calls : calls[n].op = "insert" } }

\* The years whose frame was handed to insert_to_supabase.
LoadYears == { loads[k].year : k \in DOMAIN loads }

Parsings == { j \in DOMAIN log : log[j].msg = "Parsing" }

\* The files parse_insee_file was called on.
ParsedPaths == { log[j].filepath : j \in Parsings }

PathsOf(ys) == { TempFile(Filename(y)) : y \in ys }

FetchOk(y) == y \in FetchOkYears

C15_StatusBeforeBody ==
    /\ { f.name : f \in tmp } \subseteq PathsOf(FetchOkYears)
    /\ ParsedPaths \subseteq PathsOf(FetchOkYears)
    /\ LoadYears \subseteq FetchOkYears
    /\ CommitYears \subseteq FetchOkYears
    /\ FetchFailedYears \cap FetchOkYears = {}
    /\ FetchFailedYears \cup FetchOkYears \subseteq AllYears

C15_Witness ==
    /\ pc = "done"
    /\ FetchFailed(StartYear)
    /\ \E k \in DOMAIN loads : loads[k].year = StartYear + 1
    /\ \E y \in AllYears : FetchOk(y) /\ ParseSkipped(y)

(***************************************************************************)
(* C16.  The sexe of every record handed to the loader is one of the three *)
(* values of the fixed enumeration: "M", "F", or the unknown value (null,  *)
(* which the final normalisation writes as "").  No raw code of the input  *)
(* file passes through.                                                    *)
(***************************************************************************)
SexeValues == {"M", "F", NaN, ""}

C16_SexeEnumerated ==
    \A k \in DOMAIN loads : \A r \in DOMAIN loads[k].records :
        loads[k].records[r].sexe \in SexeValues

(***************************************************************************)
(* C17.  Every run terminates, and nothing is attempted twice: no fetch,   *)
(* no parse and no batch commit is repeated, and when the run has ended    *)
(* every period is in exactly one of three final states: all its batches   *)
(* were attempted, its fetch failed, or its parse failed or gave no        *)
(* record.  Termination: a state that is not final always has a next step, *)
(* and every step decreases what remains to be done, a triple of naturals  *)
(* in lexicographic order; a run that keeps taking steps therefore ends.   *)
(***************************************************************************)
Sends == { j \in DOMAIN calls : calls[j].ev = "send" }

AllBatchesAttempted(y) ==
    \E k \in DOMAIN loads :
        /\ loads[k].year = y
        /\ LoadDone(k)
        /\ Len(loads[k].batches) = CeilDiv(Len(loads[k].records), batch_size)

SingleAttempt ==
    /\ Cardinality({ calls[j] : j \in Sends }) = Cardinality(Sends)
    /\ Cardinality({ log[j] : j \in Parsings }) = Cardinality(Parsings)
    /\ \A k1, k2 \in DOMAIN loads : loads[k1].year = loads[k2].year => k1 = k2
    /\ pc = "done" =>
          \A y \in AllYears :
              /\ AllBatchesAttempted(y) \/ FetchFailed(y) \/ ParseSkipped(y)
              /\ ~(AllBatchesAttempted(y) /\ FetchFailed(y))
              /\ ~(AllBatchesAttempted(y) /\ ParseSkipped(y))
              /\ ~(FetchFailed(y) /\ ParseSkipped(y))

Terminated == pc \in {"done", "crashed"}

\* What is left to do: the years not yet taken (all of them, and the start
\* of main, before the import), the position within the current year, and
\* the commits and answers left for the current frame.  Lexicographic order.
Remaining ==
    CASE pc = "import"     -> << EndYear - StartYear + 1, 0, 0 >>
      [] pc = "loop"       -> << Len(years), 1, 0 >>
      [] pc = "download"   -> << Len(years), 5, 0 >>
      [] pc = "fetching"   -> << Len(years), 4, 0 >>
      [] pc = "parse"      -> << Len(years), 3, 0 >>
      [] pc = "insert"     ->
            << Len(years), 2, 2 * CeilDiv(Len(df.records) - i, batch_size) + 1 >>
      [] pc = "committing" ->
            << Len(years), 2, 2 * CeilDiv(Len(df.records) - i, batch_size) >>
      [] OTHER             -> << 0, 0, 0 >>

LexLess(a, b) ==
    \/ a[1] < b[1]
    \/ a[1] = b[1] /\ a[2] < b[2]
    \/ a[1] = b[1] /\ a[2] = b[2] /\ a[3] < b[3]

Progress == LexLess(Remaining', Remaining)

C17_TerminatesSingleAttempt ==
    /\ []SingleAttempt
    /\ [](Terminated \/ ENABLED Next)
    /\ [][Progress]_vars

C17_Witness ==
    /\ pc = "done"
    /\ FetchFailed(StartYear)
    /\ ParseSkipped(StartYear + 1)
    /\ AllBatchesAttempted(StartYear + 2)
    /\ \E x \in DOMAIN loads[1].batches : Failed(loads[1].batches[x])

(***************************************************************************)
(* C18.  The file name convention and the parse dialect are selected by    *)
(* the same year boundary: a file fetched under the new name is parsed     *)
(* with the new-format mapping, a file fetched under the old name with the *)
(* old-format mapping, never the other way round.                          *)
(***************************************************************************)
NewName(y) == "/tmp/deces-" \o ToString(y) \o ".csv"

OldName(y) == "/tmp/Deces_" \o ToString(y) \o ".txt"

C18_LocatorDialectAgree ==
    Parsed =>
        /\ filepath \in {NewName(year), OldName(year)}
        /\ df \in ParseAs(ReadFile(filepath), year, filepath = NewName(year))

C18_Witness ==
    /\ Loading
    /\ year = DownloadBoundary
    /\ filepath = NewName(year)
    /\ ReadFile(filepath).columns = NewColumns
    /\ df.records[1] = fillna(NewMapped(ReadFile(filepath).rows[1], NewColumns, year))
    /\ Len(loads) = 2
    /\ Len(loads[1].records) >= 2
    /\ loads[1].year = DownloadBoundary - 1
    /\ loads[1].records[2].nom = "DUPONT"

(***************************************************************************)
(* C19.  No batch is committed for a period unless its fetch succeeded and *)
(* its parse produced at least one record.  A period whose fetch failed,   *)
(* whose parse failed or whose frame is empty causes no store call, and    *)
(* the step that skips it leaves the running total and the store as they   *)
(* were.                                                                   *)
(***************************************************************************)
ParseSkippedYears ==
    { log[j].year : j \in { n \in DOMAIN log :
          log[n].msg = "Skipping year - parsing failed or no records" } }

NoCommitWithoutParse ==
    /\ CommitYears \subseteq (FetchOkYears \cap LoadYears) \ ParseSkippedYears
    /\ \A k \in DOMAIN loads : Len(loads[k].records) >= 1
    /\ (FetchFailedYears \cup ParseSkippedYears) \cap (CommitYears \cup LoadYears) = {}

\* The step in which download_insee_file returns None, or parse_insee_file
\* returns None or an empty frame.
SkipStep ==
    \/ pc = "fetching" /\ filepath' = None
    \/ pc = "parse" /\ (df'.isNone \/ Len(df'.records) = 0)

SkipLeavesTotal ==
    SkipStep =>
        /\ total_records' = total_records
        /\ store' = store
        /\ \A j \in DOMAIN calls' : j > Len(calls) => calls'[j].op # "insert"

C19_NoCommitWithoutParse == []NoCommitWithoutParse /\ [][SkipLeavesTotal]_vars

C19_Witness ==
    /\ pc = "done"
    /\ \E y \in AllYears : FetchFailed(y)
    /\ \E y \in AllYears : ParseSkipped(y) /\ ~ParseFailed(y)
    /\ total_records > 0
    /\ total_records = Len(store)

====
